---------------------------- MODULE Spec2Model ----------------------------
(***************************************************************************)
(* A model of SqliteDatabase (src/src/sqlite.ts): the adapter's fields     *)
(* (isOpen, db, stmts), the data file it is opened on (the schema and the  *)
(* four tables), the calls application code can issue and the suspended    *)
(* continuations of the two methods that await.                            *)
(*                                                                         *)
(* JavaScript runs one job at a time: an async method runs synchronously   *)
(* up to its first await, so every method is one action, except the        *)
(* fallback paths of deleteChatByID and deleteFileByID, which await and    *)
(* are continued by a later job (pending).                                 *)
(*                                                                         *)
(* ret holds the settled outcome of the last call until the caller takes   *)
(* it (Observe); a call is issued only when ret is empty, so that every    *)
(* call is a step that changes the state.                                  *)
(***************************************************************************)
EXTENDS Integers, Sequences, FiniteSets

VARIABLES isOpen,    \* this.isOpen
          db,        \* this.db: NoDb (undefined) or the connection handle
          stmts,     \* this.stmts: statement name -> handle it was prepared on
          nconn,     \* connection handles created so far (handle identity)
          schema,    \* data file: the tables and indexes exist
          chats,     \* data file: rows of table chats
          messages,  \* data file: rows of table messages
          steps,     \* data file: rows of table confirmed_steps
          files,     \* data file: rows of table files
          pending,   \* suspended continuations (after an await), FIFO
          ret        \* outcome of the last settled call, NoRet once taken

adapterVars == <<isOpen, db, stmts, nconn>>
dataVars == <<schema, chats, messages, steps, files>>
vars == <<isOpen, db, stmts, nconn, schema, chats, messages, steps, files, pending, ret>>

(***************************************************************************)
(* Bounds                                                                  *)
(***************************************************************************)
\* connections created in one run
MaxOpens == 2
\* calls suspended at an await at the same time
MaxPending == 1

(***************************************************************************)
(* Values                                                                  *)
(***************************************************************************)
NoDb == 0
\* an optional value: {} (undefined / null) or {v}
None == {}
Some(v) == {v}
The(opt) == CHOOSE v \in opt : TRUE

NoRet == [op |-> "none", arg |-> {}, err |-> "", val |-> {}]
Ok(op, arg, val) == [op |-> op, arg |-> arg, err |-> "ok", val |-> val]
Err(op, arg, e) == [op |-> op, arg |-> arg, err |-> e, val |-> {}]

\* the statements of prepareStatements, in the order they are prepared
StmtOrder ==
    << "addChat", "getChatByID", "getChatsByCreatorID", "countChatsByCreatorID",
       "editChatByID", "deleteChatByID",
       "addMessage", "getMessageByID", "getMessagesByChatID", "deleteOldMessages",
       "deleteMessagesByChatID",
       "addConfirmedStep", "getConfirmedStepsByThreadID", "deleteOldConfirmedSteps",
       "addFile", "getFileByID", "deleteFileByID", "deleteOldFiles" >>

StmtNames == {StmtOrder[i] : i \in 1..Len(StmtOrder)}

\* a parameter with a default value: `offset = 0`
Default(opt, d) == IF opt = None THEN d ELSE The(opt)
DefaultChatsLimit == 50
DefaultMessagesLimit == 100

\* Date <-> epoch milliseconds
getTime(date) == date.time
NewDate(ms) == [time |-> ms]

(***************************************************************************)
(* The engine (better-sqlite3 over the data file)                          *)
(***************************************************************************)
\* a prepared statement can run: it exists and its connection is the open one
Live(s) == db # NoDb /\ stmts[s] = db

\* Statement.get(): the first row of the result, or undefined
FirstRow(rows) == IF rows = {} THEN None ELSE Some(CHOOSE r \in rows : TRUE)

\* SQL coalesce(?, column): the bound value unless it is NULL
coalesce(bound, column) == IF bound = None THEN column ELSE The(bound)

\* a table declared without the primary key
PrimaryKeyIgnored(table, row) == FALSE

\* id TEXT PRIMARY KEY: an insert of a stored id is refused
PrimaryKeyTaken(table, row) == \E r \in table : r.id = row.id

\* LIMIT ? OFFSET ? over an ordered result: a negative limit is no limit,
\* a negative offset is 0
LimitOffset(rows, limit, offset) ==
    LET off == IF offset < 0 THEN 0 ELSE offset
        last == IF limit < 0 \/ off + limit > Len(rows) THEN Len(rows) ELSE off + limit
    IN  SubSeq(rows, off + 1, last)

\* the orders in which the engine may return the rows of S under ORDER BY:
\* no row is returned after one it must precede (before: the pairs <<a, b>>
\* with a ordered before b)
OrderBy(S, before) ==
    {s \in [1..Cardinality(S) -> S] :
        /\ \A i, j \in 1..Cardinality(S) : i # j => s[i] # s[j]
        /\ \A i, j \in 1..Cardinality(S) : i < j => <<s[j], s[i]>> \notin before}

(***************************************************************************)
(* Lifecycle: open (22-82), prepareStatements (84-133), close (180-185)    *)
(***************************************************************************)
\* how far open() gets: "none" runs to the end; "connect", "pragma",
\* "migrate" name the engine call that throws; <<"prepare", k>> is
\* db.prepare throwing on the k-th statement
PrepareFailPoints == {1, 6}
OpenOutcomes ==
    {<<"none", 0>>, <<"connect", 0>>, <<"pragma", 0>>, <<"migrate", 0>>}
        \cup {<<"prepare", k>> : k \in PrepareFailPoints}

\* open() without its first line
OpenNeverReturnsEarly == FALSE

\* if (this.isOpen) return
OpenReturnsEarly == isOpen

\* prepareStatements up to (excluding) statement k, on connection handle h
prepareStatements(h, k) ==
    [s \in StmtNames |->
        IF \E i \in 1..Len(StmtOrder) : StmtOrder[i] = s /\ i < k THEN h ELSE stmts[s]]

Open(fail, k) ==
    /\ ret = NoRet
    /\ IF OpenReturnsEarly
       THEN /\ ret' = Ok("open", {}, {})
            /\ UNCHANGED <<adapterVars, dataVars, pending>>
       ELSE IF fail \in {"connect", "pragma"}
       THEN \* new Sqlite(...) or db.pragma(...) throws before any assignment
            /\ ret' = Err("open", {}, "SqliteError")
            /\ UNCHANGED <<adapterVars, dataVars, pending>>
       ELSE /\ nconn < MaxOpens
            /\ nconn' = nconn + 1
            /\ db' = nconn + 1
            /\ isOpen' = TRUE
            /\ IF fail = "migrate"
               THEN \* the schema transaction throws and rolls back
                    /\ ret' = Err("open", {}, "SqliteError")
                    /\ UNCHANGED <<stmts, schema>>
               ELSE /\ schema' = TRUE
                    /\ IF fail = "prepare"
                       THEN /\ stmts' = prepareStatements(nconn + 1, k)
                            /\ ret' = Err("open", {}, "SqliteError")
                       ELSE /\ stmts' = prepareStatements(nconn + 1, Len(StmtOrder) + 1)
                            /\ ret' = Ok("open", {}, {})
            /\ UNCHANGED <<chats, messages, steps, files, pending>>

CloseReturnsEarly == db = NoDb \/ ~isOpen

\* close() that forgets `this.db = undefined`
CloseKeepsHandle ==
    /\ ret = NoRet
    /\ ret' = Ok("close", {}, {})
    /\ IF CloseReturnsEarly
       THEN UNCHANGED <<adapterVars, dataVars, pending>>
       ELSE /\ isOpen' = FALSE
            /\ UNCHANGED <<db, stmts, nconn, dataVars, pending>>

Close ==
    /\ ret = NoRet
    /\ ret' = Ok("close", {}, {})
    /\ IF CloseReturnsEarly
       THEN UNCHANGED <<adapterVars, dataVars, pending>>
       ELSE /\ isOpen' = FALSE
            /\ db' = NoDb
            /\ UNCHANGED <<stmts, nconn, dataVars, pending>>

\* the caller takes the settled outcome
Observe ==
    /\ ret # NoRet
    /\ ret' = NoRet
    /\ UNCHANGED <<adapterVars, dataVars, pending>>

\* a call that throws before it changes anything
Throws(op, arg, e) ==
    /\ ret' = Err(op, arg, e)
    /\ UNCHANGED <<adapterVars, dataVars, pending>>

\* a call that returns val and changes nothing
Returns(op, arg, val) ==
    /\ ret' = Ok(op, arg, val)
    /\ UNCHANGED <<adapterVars, dataVars, pending>>

(***************************************************************************)
(* Chats (135-142, 188-230)                                                *)
(***************************************************************************)
\* rowToChat with name and creatorID taken from each other's column
rowToChatSwapped(row) ==
    [id |-> row.id, name |-> row.creatorID, creatorID |-> row.name,
     createdAt |-> NewDate(row.createdAt)]

rowToChat(row) ==
    [id |-> row.id, name |-> row.name, creatorID |-> row.creatorID,
     createdAt |-> NewDate(row.createdAt)]

chatToRow(chat) ==
    [id |-> chat.id, name |-> chat.name, creatorID |-> chat.creatorID,
     createdAt |-> getTime(chat.createdAt)]

AddChat(chat) ==
    /\ ret = NoRet
    /\ IF db = NoDb THEN Throws("addChat", chat, "NotOpen")
       ELSE IF ~Live("addChat") THEN Throws("addChat", chat, "TypeError")
       ELSE IF PrimaryKeyTaken(chats, chatToRow(chat))
       THEN Throws("addChat", chat, "ConstraintError")
       ELSE /\ chats' = chats \cup {chatToRow(chat)}
            /\ ret' = Ok("addChat", chat, {})
            /\ UNCHANGED <<adapterVars, schema, messages, steps, files, pending>>

\* the outcome of getChatByID(id) on the rows `table` of chats
getChatByID(table, id) ==
    IF db = NoDb THEN [err |-> "NotOpen", val |-> None]
    ELSE IF ~Live("getChatByID") THEN [err |-> "TypeError", val |-> None]
    ELSE LET row == FirstRow({r \in table : r.id = id})
         IN  [err |-> "ok",
              val |-> IF row = None THEN None ELSE Some(rowToChat(The(row)))]

GetChatByID(id) ==
    /\ ret = NoRet
    /\ LET r == getChatByID(chats, id)
       IN  ret' = [op |-> "getChatByID", arg |-> id, err |-> r.err, val |-> r.val]
    /\ UNCHANGED <<adapterVars, dataVars, pending>>

GetChatsByCreatorID(creatorID, offsetArg, limitArg) ==
    /\ ret = NoRet
    /\ LET arg == [creatorID |-> creatorID, offset |-> offsetArg, limit |-> limitArg]
           offset == Default(offsetArg, 0)
           limit == Default(limitArg, DefaultChatsLimit)
           rows == {r \in chats : r.creatorID = creatorID}
           newer == {p \in rows \X rows : p[1].createdAt > p[2].createdAt}
       IN  IF db = NoDb THEN Throws("getChatsByCreatorID", arg, "NotOpen")
           ELSE IF ~Live("getChatsByCreatorID")
           THEN Throws("getChatsByCreatorID", arg, "TypeError")
           ELSE \E ordered \in OrderBy(rows, newer) :
                   LET page == LimitOffset(ordered, limit, offset)
                   IN  Returns("getChatsByCreatorID", arg,
                               [i \in 1..Len(page) |-> rowToChat(page[i])])

CountChatsByCreatorID(creatorID) ==
    /\ ret = NoRet
    /\ IF db = NoDb THEN Throws("countChatsByCreatorID", creatorID, "NotOpen")
       ELSE IF ~Live("countChatsByCreatorID")
       THEN Throws("countChatsByCreatorID", creatorID, "TypeError")
       ELSE Returns("countChatsByCreatorID", creatorID,
                    Cardinality({r \in chats : r.creatorID = creatorID}))

\* the update with the name bound to the creatorID parameter too
updateChatMisbound(row, updated) ==
    [id |-> row.id,
     name |-> coalesce(updated.name, row.name),
     creatorID |-> coalesce(updated.name, row.creatorID),
     createdAt |-> coalesce(IF updated.createdAt # None
                            THEN Some(getTime(The(updated.createdAt)))
                            ELSE None,
                            row.createdAt)]

\* UPDATE chats SET name = coalesce(?, name), ... WHERE id = ?
updateChat(row, updated) ==
    [id |-> row.id,
     name |-> coalesce(updated.name, row.name),
     creatorID |-> coalesce(updated.creatorID, row.creatorID),
     createdAt |-> coalesce(IF updated.createdAt # None
                            THEN Some(getTime(The(updated.createdAt)))
                            ELSE None,
                            row.createdAt)]

EditChatByID(id, updated) ==
    /\ ret = NoRet
    /\ LET arg == [id |-> id, updated |-> updated]
       IN  IF db = NoDb THEN Throws("editChatByID", arg, "NotOpen")
           ELSE IF ~Live("editChatByID") THEN Throws("editChatByID", arg, "TypeError")
           ELSE LET after == {IF r.id = id THEN updateChat(r, updated) ELSE r : r \in chats}
                    r == getChatByID(after, id)
                IN  /\ chats' = after
                    /\ ret' = [op |-> "editChatByID", arg |-> arg,
                               err |-> r.err, val |-> r.val]
                    /\ UNCHANGED <<adapterVars, schema, messages, steps, files, pending>>

\* DELETE FROM chats, the WHERE left out
DeleteFromChatsEveryRow(table, id) == {}

\* DELETE FROM chats WHERE id = ? (with RETURNING at 100, without at 227)
DeleteFromChats(table, id) == {r \in table : r.id # id}

\* deleteChatByID up to its return or, on the fallback path, its await.
\* engineThrows: the DELETE ... RETURNING statement throws when run.
DeleteChatByID(id, engineThrows) ==
    /\ ret = NoRet
    /\ IF db = NoDb THEN Throws("deleteChatByID", id, "NotOpen")
       ELSE IF Live("deleteChatByID") /\ ~engineThrows
       THEN LET row == FirstRow({r \in chats : r.id = id})
            IN  /\ chats' = DeleteFromChats(chats, id)
                /\ ret' = Ok("deleteChatByID", id,
                             IF row = None THEN None ELSE Some(rowToChat(The(row))))
                /\ UNCHANGED <<adapterVars, schema, messages, steps, files, pending>>
       ELSE \* catch: const chat = await this.getChatByID(id)
            /\ Len(pending) < MaxPending
            /\ pending' = Append(pending, [op |-> "deleteChatByID", id |-> id,
                                           got |-> getChatByID(chats, id)])
            /\ UNCHANGED <<adapterVars, dataVars, ret>>

\* the continuation of deleteChatByID after its await (226-228)
DeleteChatByIDResume ==
    /\ ret = NoRet
    /\ pending # <<>>
    /\ Head(pending).op = "deleteChatByID"
    /\ pending' = Tail(pending)
    /\ LET id == Head(pending).id
           got == Head(pending).got
       IN  IF got.err # "ok"
           THEN /\ ret' = Err("deleteChatByID", id, got.err)
                /\ UNCHANGED <<adapterVars, dataVars>>
           ELSE IF got.val = None
           THEN /\ ret' = Ok("deleteChatByID", id, None)
                /\ UNCHANGED <<adapterVars, dataVars>>
           ELSE IF db = NoDb
           THEN \* this.db!.prepare on undefined
                /\ ret' = Err("deleteChatByID", id, "TypeError")
                /\ UNCHANGED <<adapterVars, dataVars>>
           ELSE /\ chats' = DeleteFromChats(chats, id)
                /\ ret' = Ok("deleteChatByID", id, got.val)
                /\ UNCHANGED <<adapterVars, schema, messages, steps, files>>

(***************************************************************************)
(* Messages (144-157, 233-281).  Of a message's columns the model keeps    *)
(* id, chatID, body and createdAt.                                         *)
(***************************************************************************)
JSONstringify(v) == <<"json", v>>
JSONparse(text) == text[2]

\* the ids in ascending order of their text (BINARY collation)
TextOrder == <<"m1", "m2", "m3">>
TextRank(id) == CHOOSE i \in 1..Len(TextOrder) : TextOrder[i] = id
TextGreater(a, b) == TextRank(a) > TextRank(b)

rowToMessage(row) ==
    [id |-> row.id, chatID |-> row.chatID, body |-> JSONparse(row.body),
     createdAt |-> NewDate(row.createdAt)]

messageToRow(msg) ==
    [id |-> msg.id, chatID |-> msg.chatID, body |-> JSONstringify(msg.body),
     createdAt |-> getTime(msg.createdAt)]

AddMessage(msg) ==
    /\ ret = NoRet
    /\ IF db = NoDb THEN Throws("addMessage", msg, "NotOpen")
       ELSE IF ~Live("addMessage") THEN Throws("addMessage", msg, "TypeError")
       ELSE IF PrimaryKeyTaken(messages, messageToRow(msg))
       THEN Throws("addMessage", msg, "ConstraintError")
       ELSE /\ messages' = messages \cup {messageToRow(msg)}
            /\ ret' = Ok("addMessage", msg, {})
            /\ UNCHANGED <<adapterVars, schema, chats, steps, files, pending>>

GetMessageByID(id) ==
    /\ ret = NoRet
    /\ IF db = NoDb THEN Throws("getMessageByID", id, "NotOpen")
       ELSE IF ~Live("getMessageByID") THEN Throws("getMessageByID", id, "TypeError")
       ELSE LET row == FirstRow({r \in messages : r.id = id})
            IN  Returns("getMessageByID", id,
                        IF row = None THEN None ELSE Some(rowToMessage(The(row))))

\* ids is an array; the rows of an IN query come in no stated order, so the
\* result is kept as the set of its elements
GetMessagesByIDs(ids) ==
    /\ ret = NoRet
    /\ IF db = NoDb THEN Throws("getMessagesByIDs", ids, "NotOpen")
       ELSE IF Len(ids) = 0 THEN Returns("getMessagesByIDs", ids, {})
       ELSE IF ~schema THEN Throws("getMessagesByIDs", ids, "SqliteError")
       ELSE Returns("getMessagesByIDs", ids,
                    {rowToMessage(r) : r \in {x \in messages :
                                                \E i \in 1..Len(ids) : ids[i] = x.id}})

\* ORDER BY createdAt DESC, id
MessageBeforeIdAscending(a, b) ==
    \/ a.createdAt > b.createdAt
    \/ a.createdAt = b.createdAt /\ TextGreater(b.id, a.id)

\* ORDER BY createdAt DESC, id DESC
MessageBefore(a, b) ==
    \/ a.createdAt > b.createdAt
    \/ a.createdAt = b.createdAt /\ TextGreater(a.id, b.id)

GetMessagesByChatID(chatID, offsetArg, limitArg) ==
    /\ ret = NoRet
    /\ LET arg == [chatID |-> chatID, offset |-> offsetArg, limit |-> limitArg]
           offset == Default(offsetArg, 0)
           limit == Default(limitArg, DefaultMessagesLimit)
           rows == {r \in messages : r.chatID = chatID}
       IN  IF db = NoDb THEN Throws("getMessagesByChatID", arg, "NotOpen")
           ELSE IF ~Live("getMessagesByChatID")
           THEN Throws("getMessagesByChatID", arg, "TypeError")
           ELSE \E ordered \in OrderBy(rows, {p \in rows \X rows : MessageBefore(p[1], p[2])}) :
                   LET page == LimitOffset(ordered, limit, offset)
                   IN  Returns("getMessagesByChatID", arg,
                               [i \in 1..Len(page) |-> rowToMessage(page[i])])

DeleteOldMessages(maxDate) ==
    /\ ret = NoRet
    /\ IF db = NoDb THEN Throws("deleteOldMessages", maxDate, "NotOpen")
       ELSE IF ~Live("deleteOldMessages")
       THEN Throws("deleteOldMessages", maxDate, "TypeError")
       ELSE LET old == {r \in messages : r.createdAt < getTime(maxDate)}
            IN  /\ messages' = messages \ old
                /\ ret' = Ok("deleteOldMessages", maxDate, Cardinality(old))
                /\ UNCHANGED <<adapterVars, schema, chats, steps, files, pending>>

DeleteMessagesByChatID(chatID) ==
    /\ ret = NoRet
    /\ IF db = NoDb THEN Throws("deleteMessagesByChatID", chatID, "NotOpen")
       ELSE IF ~Live("deleteMessagesByChatID")
       THEN Throws("deleteMessagesByChatID", chatID, "TypeError")
       ELSE LET gone == {r \in messages : r.chatID = chatID}
            IN  /\ messages' = messages \ gone
                /\ ret' = Ok("deleteMessagesByChatID", chatID, Cardinality(gone))
                /\ UNCHANGED <<adapterVars, schema, chats, steps, files, pending>>

(***************************************************************************)
(* Confirmed steps (159-168, 284-306).  The model keeps the columns id,    *)
(* threadID and createdAt.                                                 *)
(***************************************************************************)
rowToConfirmedStep(row) ==
    [id |-> row.id, threadID |-> row.threadID, createdAt |-> NewDate(row.createdAt)]

confirmedStepToRow(step) ==
    [id |-> step.id, threadID |-> step.threadID, createdAt |-> getTime(step.createdAt)]

AddConfirmedStep(step) ==
    /\ ret = NoRet
    /\ IF db = NoDb THEN Throws("addConfirmedStep", step, "NotOpen")
       ELSE IF ~Live("addConfirmedStep") THEN Throws("addConfirmedStep", step, "TypeError")
       ELSE IF PrimaryKeyTaken(steps, confirmedStepToRow(step))
       THEN Throws("addConfirmedStep", step, "ConstraintError")
       ELSE /\ steps' = steps \cup {confirmedStepToRow(step)}
            /\ ret' = Ok("addConfirmedStep", step, {})
            /\ UNCHANGED <<adapterVars, schema, chats, messages, files, pending>>

GetConfirmedStepsByThreadID(threadID) ==
    /\ ret = NoRet
    /\ LET rows == {r \in steps : r.threadID = threadID}
           newer == {p \in rows \X rows : p[1].createdAt > p[2].createdAt}
       IN  IF db = NoDb THEN Throws("getConfirmedStepsByThreadID", threadID, "NotOpen")
           ELSE IF ~Live("getConfirmedStepsByThreadID")
           THEN Throws("getConfirmedStepsByThreadID", threadID, "TypeError")
           ELSE \E ordered \in OrderBy(rows, newer) :
                   Returns("getConfirmedStepsByThreadID", threadID,
                           [i \in 1..Len(ordered) |-> rowToConfirmedStep(ordered[i])])

DeleteOldConfirmedSteps(maxDate) ==
    /\ ret = NoRet
    /\ IF db = NoDb THEN Throws("deleteOldConfirmedSteps", maxDate, "NotOpen")
       ELSE IF ~Live("deleteOldConfirmedSteps")
       THEN Throws("deleteOldConfirmedSteps", maxDate, "TypeError")
       ELSE LET old == {r \in steps : r.createdAt < getTime(maxDate)}
            IN  /\ steps' = steps \ old
                /\ ret' = Ok("deleteOldConfirmedSteps", maxDate, Cardinality(old))
                /\ UNCHANGED <<adapterVars, schema, chats, messages, files, pending>>

(***************************************************************************)
(* Files (170-178, 309-352).  The model keeps the columns id, size and     *)
(* createdAt.                                                              *)
(***************************************************************************)
rowToFile(row) ==
    [id |-> row.id, size |-> row.size, createdAt |-> NewDate(row.createdAt)]

fileToRow(data) ==
    [id |-> data.id, size |-> data.size, createdAt |-> getTime(data.createdAt)]

AddFile(data) ==
    /\ ret = NoRet
    /\ IF db = NoDb THEN Throws("addFile", data, "NotOpen")
       ELSE IF ~Live("addFile") THEN Throws("addFile", data, "TypeError")
       ELSE IF PrimaryKeyTaken(files, fileToRow(data))
       THEN Throws("addFile", data, "ConstraintError")
       ELSE /\ files' = files \cup {fileToRow(data)}
            /\ ret' = Ok("addFile", data, {})
            /\ UNCHANGED <<adapterVars, schema, chats, messages, steps, pending>>

\* the outcome of getFileByID(id)
getFileByID(id) ==
    IF db = NoDb THEN [err |-> "NotOpen", val |-> None]
    ELSE IF ~Live("getFileByID") THEN [err |-> "TypeError", val |-> None]
    ELSE LET row == FirstRow({r \in files : r.id = id})
         IN  [err |-> "ok",
              val |-> IF row = None THEN None ELSE Some(rowToFile(The(row)))]

GetFileByID(id) ==
    /\ ret = NoRet
    /\ LET r == getFileByID(id)
       IN  ret' = [op |-> "getFileByID", arg |-> id, err |-> r.err, val |-> r.val]
    /\ UNCHANGED <<adapterVars, dataVars, pending>>

GetFilesByIDs(ids) ==
    /\ ret = NoRet
    /\ IF db = NoDb THEN Throws("getFilesByIDs", ids, "NotOpen")
       ELSE IF Len(ids) = 0 THEN Returns("getFilesByIDs", ids, {})
       ELSE IF ~schema THEN Throws("getFilesByIDs", ids, "SqliteError")
       ELSE Returns("getFilesByIDs", ids,
                    {rowToFile(r) : r \in {x \in files :
                                             \E i \in 1..Len(ids) : ids[i] = x.id}})

DeleteFileByID(id, engineThrows) ==
    /\ ret = NoRet
    /\ IF db = NoDb THEN Throws("deleteFileByID", id, "NotOpen")
       ELSE IF Live("deleteFileByID") /\ ~engineThrows
       THEN LET row == FirstRow({r \in files : r.id = id})
            IN  /\ files' = {r \in files : r.id # id}
                /\ ret' = Ok("deleteFileByID", id,
                             IF row = None THEN None ELSE Some(rowToFile(The(row))))
                /\ UNCHANGED <<adapterVars, schema, chats, messages, steps, pending>>
       ELSE \* catch: const file = await this.getFileByID(id)
            /\ Len(pending) < MaxPending
            /\ pending' = Append(pending, [op |-> "deleteFileByID", id |-> id,
                                           got |-> getFileByID(id)])
            /\ UNCHANGED <<adapterVars, dataVars, ret>>

\* the continuation of deleteFileByID after its await (336-338)
DeleteFileByIDResume ==
    /\ ret = NoRet
    /\ pending # <<>>
    /\ Head(pending).op = "deleteFileByID"
    /\ pending' = Tail(pending)
    /\ LET id == Head(pending).id
           got == Head(pending).got
       IN  IF got.err # "ok"
           THEN /\ ret' = Err("deleteFileByID", id, got.err)
                /\ UNCHANGED <<adapterVars, dataVars>>
           ELSE IF got.val = None
           THEN /\ ret' = Ok("deleteFileByID", id, None)
                /\ UNCHANGED <<adapterVars, dataVars>>
           ELSE IF db = NoDb
           THEN /\ ret' = Err("deleteFileByID", id, "TypeError")
                /\ UNCHANGED <<adapterVars, dataVars>>
           ELSE /\ files' = {r \in files : r.id # id}
                /\ ret' = Ok("deleteFileByID", id, got.val)
                /\ UNCHANGED <<adapterVars, schema, chats, messages, steps>>

\* SELECT id FROM files WHERE createdAt <= ?
IsOldOrEqual(row, maxDate) == row.createdAt <= getTime(maxDate)

\* SELECT id FROM files WHERE createdAt < ?
IsOld(row, maxDate) == row.createdAt < getTime(maxDate)

\* the ids come in no stated order: the result is kept as their set
DeleteOldFiles(maxDate) ==
    /\ ret = NoRet
    /\ IF db = NoDb THEN Throws("deleteOldFiles", maxDate, "NotOpen")
       ELSE IF ~Live("deleteOldFiles") THEN Throws("deleteOldFiles", maxDate, "TypeError")
       ELSE LET ids == {r.id : r \in {x \in files : IsOld(x, maxDate)}}
            IN  /\ files' = IF ids # {} THEN {r \in files : r.id \notin ids} ELSE files
                /\ ret' = Ok("deleteOldFiles", maxDate, ids)
                /\ UNCHANGED <<adapterVars, schema, chats, messages, steps, pending>>

(***************************************************************************)
(* Inputs of the calls                                                     *)
(***************************************************************************)
Dates == {NewDate(1), NewDate(2)}
MaxDates == {NewDate(1), NewDate(2), NewDate(3)}

ChatIDs == {"c1", "c2"}
Chats == [id : ChatIDs, name : {"a"}, creatorID : {"u1"}, createdAt : {NewDate(1)}]
\* Partial<Chat>: each field absent or given
ChatUpdates ==
    [name : {None, Some("b")},
     creatorID : {None, Some("u2")},
     createdAt : {None, Some(NewDate(2))}]
\* the edits issued, <<id, update>>: every update of c1, a rename of c2
ChatEdits ==
    ({"c1"} \X ChatUpdates)
        \cup {<<"c2", [name |-> Some("b"), creatorID |-> None, createdAt |-> None]>>}
Pages == {<<None, None>>, <<Some(0), Some(1)>>, <<Some(1), Some(1)>>, <<Some(1), Some(2)>>,
          <<Some(0), Some(0)>>, <<Some(2), Some(2)>>}

MessageIDs == {"m1", "m2", "m3"}
Messages ==
    [id : MessageIDs, chatID : ChatIDs, body : {[text |-> "hello"]}, createdAt : Dates]
IDLists(S) == {<<>>} \cup {<<x>> : x \in S} \cup {<<x, y>> : x, y \in S}

ThreadIDs == {"t1"}
ConfirmedSteps == [id : {"s1", "s2"}, threadID : ThreadIDs, createdAt : Dates]

FileIDs == {"f1", "f2", "f3"}
Files == [id : FileIDs, size : {10}, createdAt : Dates]

\* the smaller inputs of the specification of all the calls together
FewChats == [id : ChatIDs, name : {"a", "b"}, creatorID : {"u1"}, createdAt : {NewDate(1)}]
FewChatEdits ==
    ChatIDs \X [name : {None, Some("b")}, creatorID : {None}, createdAt : {None}]
FewMessages ==
    [id : {"m1"}, chatID : {"c1"}, body : {[text |-> "hello"]}, createdAt : {NewDate(1)}]
FewConfirmedSteps == [id : {"s1"}, threadID : ThreadIDs, createdAt : {NewDate(1)}]
FewFiles == [id : {"f1"}, size : {10}, createdAt : {NewDate(1)}]
FewMaxDates == {NewDate(1), NewDate(2)}

(***************************************************************************)
(* Specifications                                                          *)
(***************************************************************************)
Init ==
    /\ isOpen = FALSE
    /\ db = NoDb
    /\ stmts = [s \in StmtNames |-> NoDb]
    /\ nconn = 0
    /\ schema = FALSE
    /\ chats = {}
    /\ messages = {}
    /\ steps = {}
    /\ files = {}
    /\ pending = <<>>
    /\ ret = NoRet

Lifecycle ==
    \/ \E o \in OpenOutcomes : Open(o[1], o[2])
    \/ Close
    \/ Observe

ChatCalls(C, E, P) ==
    \/ \E chat \in C : AddChat(chat)
    \/ \E id \in ChatIDs : GetChatByID(id)
    \/ \E chat \in C, p \in P : GetChatsByCreatorID(chat.creatorID, p[1], p[2])
    \/ \E chat \in C : CountChatsByCreatorID(chat.creatorID)
    \/ \E e \in E : EditChatByID(e[1], e[2])
    \/ \E id \in ChatIDs, engineThrows \in BOOLEAN : DeleteChatByID(id, engineThrows)
    \/ DeleteChatByIDResume

MessageCalls(M, D, P) ==
    \/ \E msg \in M : AddMessage(msg)
    \/ \E msg \in M : GetMessageByID(msg.id)
    \/ \E ids \in IDLists({msg.id : msg \in M}) : GetMessagesByIDs(ids)
    \/ \E msg \in M, p \in P : GetMessagesByChatID(msg.chatID, p[1], p[2])
    \/ \E maxDate \in D : DeleteOldMessages(maxDate)
    \/ \E msg \in M : DeleteMessagesByChatID(msg.chatID)

ConfirmedStepCalls(S, D) ==
    \/ \E step \in S : AddConfirmedStep(step)
    \/ \E step \in S : GetConfirmedStepsByThreadID(step.threadID)
    \/ \E maxDate \in D : DeleteOldConfirmedSteps(maxDate)

FileCalls(F, D) ==
    \/ \E data \in F : AddFile(data)
    \/ \E data \in F : GetFileByID(data.id)
    \/ \E ids \in IDLists({data.id : data \in F}) : GetFilesByIDs(ids)
    \/ \E data \in F, engineThrows \in BOOLEAN : DeleteFileByID(data.id, engineThrows)
    \/ DeleteFileByIDResume
    \/ \E maxDate \in D : DeleteOldFiles(maxDate)

\* every call, on few records
Next ==
    \/ Lifecycle
    \/ ChatCalls(FewChats, FewChatEdits, {<<None, None>>})
    \/ MessageCalls(FewMessages, FewMaxDates, {<<None, None>>})
    \/ ConfirmedStepCalls(FewConfirmedSteps, FewMaxDates)
    \/ FileCalls(FewFiles, FewMaxDates)

Spec == Init /\ [][Next]_vars

\* the chat calls
NextChats == Lifecycle \/ ChatCalls(Chats, ChatEdits, {<<Some(0), Some(1)>>})
SpecChats == Init /\ [][NextChats]_vars

\* the message calls
NextMessages == Lifecycle \/ MessageCalls(Messages, MaxDates, Pages)
SpecMessages == Init /\ [][NextMessages]_vars

\* the file calls
NextFiles == Lifecycle \/ FileCalls(Files, MaxDates)
SpecFiles == Init /\ [][NextFiles]_vars

(***************************************************************************)
(* The claims                                                              *)
(***************************************************************************)
CrudOps ==
    {"addChat", "getChatByID", "getChatsByCreatorID", "countChatsByCreatorID",
     "editChatByID", "deleteChatByID",
     "addMessage", "getMessageByID", "getMessagesByIDs", "getMessagesByChatID",
     "deleteOldMessages", "deleteMessagesByChatID",
     "addConfirmedStep", "getConfirmedStepsByThreadID", "deleteOldConfirmedSteps",
     "addFile", "getFileByID", "getFilesByIDs", "deleteFileByID", "deleteOldFiles"}

\* a call is issued and settles in the same step (it does not await)
Settles(ops) == ret = NoRet /\ ret' # NoRet /\ ret'.op \in ops /\ pending' = pending

\* open() has run to its end: the schema and every statement are there
FullyOpen == db # NoDb /\ schema /\ \A s \in StmtNames : Live(s)

\* C1: while the adapter is not open every CRUD call, of every entity kind and
\* also getMessagesByIDs / getFilesByIDs of an empty list, throws the not-open
\* error and leaves the stored data as it is; a call of open() that returns
\* from there leaves an adapter on which the CRUD calls do not throw it
\* (they return, or an insert of a stored id is refused).
C1_NotOpenThrows ==
    [][ /\ (~isOpen /\ Settles(CrudOps))
            => (ret'.err = "NotOpen" /\ UNCHANGED <<adapterVars, dataVars>>)
        /\ (~isOpen /\ Settles({"open"}) /\ ret'.err = "ok") => FullyOpen'
        /\ (FullyOpen /\ Settles(CrudOps)) => ret'.err \in {"ok", "ConstraintError"}
      ]_vars

\* every kind of call has thrown the not-open error after a close(): here a
\* batch get of no ids, on a data file that holds a chat
C1_Witness ==
    /\ ret.op \in {"getMessagesByIDs", "getFilesByIDs"}
    /\ ret.arg = <<>>
    /\ ret.err = "NotOpen"
    /\ nconn > 0
    /\ chats # {}

\* C2: deleteChatByID(id), run with no other call between its steps: of a
\* stored id it removes that chat alone and returns the record as stored; of an
\* id not stored it returns not-found and changes nothing; on the RETURNING
\* path and on the read-then-delete path alike.
C2_DeleteChat ==
    [][ LET Stored(id) == {r \in chats : r.id = id}
            Deleted(id) ==
                /\ ret'.err = "ok"
                /\ ret'.val = {rowToChat(r) : r \in Stored(id)}
                /\ chats' = chats \ Stored(id)
                /\ Cardinality(Stored(id)) <= 1
                /\ UNCHANGED <<schema, messages, steps, files>>
                /\ \A r \in chats' : r.id # id
        IN  /\ (Live("deleteChatByID") /\ Settles({"deleteChatByID"})) => Deleted(ret'.arg)
            /\ ( /\ pending # <<>>
                 /\ pending' = Tail(pending)
                 /\ Head(pending).op = "deleteChatByID"
                 /\ Live("getChatByID")
                 /\ Head(pending).got = getChatByID(chats, Head(pending).id) )
                => (ret'.op = "deleteChatByID" /\ Deleted(Head(pending).id))
      ]_vars

\* the read-then-delete path has returned the record it removed
C2_Witness ==
    /\ ret.op = "deleteChatByID"
    /\ ret.err = "ok"
    /\ ret.val # None
    /\ ~Live("deleteChatByID")
    /\ chats # {}

\* C3: editChatByID(id, updated) sets the fields given in the update, keeps
\* the fields absent from it, keeps the id and every other chat, and returns
\* the record after the update; of an id not stored it returns not-found and
\* changes nothing.
C3_EditChat ==
    [][ (Settles({"editChatByID"}) /\ ret'.err = "ok") =>
          LET id == ret'.arg.id
              u == ret'.arg.updated
              old == {r \in chats : r.id = id}
              new == {r \in chats' : r.id = id}
          IN  /\ {r \in chats : r.id # id} = {r \in chats' : r.id # id}
              /\ UNCHANGED <<schema, messages, steps, files>>
              /\ old = {} => (chats' = chats /\ ret'.val = None)
              /\ old # {} =>
                   /\ Cardinality(new) = 1
                   /\ ret'.val = {rowToChat(r) : r \in new}
                   /\ \A o \in old, n \in new :
                        /\ n.name = (IF u.name = None THEN o.name ELSE The(u.name))
                        /\ n.creatorID =
                             (IF u.creatorID = None THEN o.creatorID ELSE The(u.creatorID))
                        /\ n.createdAt =
                             (IF u.createdAt = None THEN o.createdAt
                              ELSE getTime(The(u.createdAt)))
      ]_vars

\* an update of the name alone has returned a chat with its first creatorID
\* and createdAt, next to another stored chat
C3_Witness ==
    /\ ret.op = "editChatByID"
    /\ ret.err = "ok"
    /\ ret.arg.updated = [name |-> Some("b"), creatorID |-> None, createdAt |-> None]
    /\ ret.val = {[id |-> ret.arg.id, name |-> "b", creatorID |-> "u1",
                   createdAt |-> NewDate(1)]}
    /\ Cardinality(chats) = 2

\* C4: getMessagesByChatID(chatID, offset, limit) returns the elements at
\* positions offset .. offset+limit-1 of the chat's stored messages in the
\* order createdAt descending, then id descending; offset defaults to 0 and
\* limit to 100; no message of another chat is in the result.
C4_MessagesPage ==
    (ret.op = "getMessagesByChatID" /\ ret.err = "ok") =>
        LET M == {rowToMessage(r) : r \in {x \in messages : x.chatID = ret.arg.chatID}}
            offset == IF ret.arg.offset = None THEN 0 ELSE The(ret.arg.offset)
            limit == IF ret.arg.limit = None THEN 100 ELSE The(ret.arg.limit)
            Precedes(x, m) ==
                \/ getTime(x.createdAt) > getTime(m.createdAt)
                \/ getTime(x.createdAt) = getTime(m.createdAt) /\ TextGreater(x.id, m.id)
            Position(m) == Cardinality({x \in M : Precedes(x, m)})
            rest == Cardinality(M) - offset
            n == IF rest < 0 THEN 0 ELSE IF rest < limit THEN rest ELSE limit
        IN  /\ Len(ret.val) = n
            /\ \A i \in 1..Len(ret.val) :
                 /\ ret.val[i] \in M
                 /\ Position(ret.val[i]) = offset + i - 1

\* the second page of one holds the lesser id of two messages of one
\* createdAt, while a message of another chat is stored
C4_Witness ==
    /\ ret.op = "getMessagesByChatID"
    /\ ret.err = "ok"
    /\ ret.arg.offset = Some(1)
    /\ Len(ret.val) = 1
    /\ \E r \in messages :
          /\ r.chatID = ret.arg.chatID
          /\ r.createdAt = getTime(ret.val[1].createdAt)
          /\ TextGreater(r.id, ret.val[1].id)
    /\ \E r \in messages : r.chatID # ret.arg.chatID

\* C5: deleteOldFiles(T) returns the ids of the files stored with createdAt
\* < T, removes those files and no other (a file of createdAt = T stays), and
\* getFileByID of a returned id then yields not-found.
C5_DeleteOldFiles ==
    [][ (Settles({"deleteOldFiles"}) /\ ret'.err = "ok") =>
          LET T == getTime(ret'.arg)
              old == {f \in files : f.createdAt < T}
          IN  /\ ret'.val = {f.id : f \in old}
              /\ files' = files \ old
              /\ \A f \in files : f.createdAt >= T => f \in files'
              /\ \A id \in ret'.val : getFileByID(id)' = [err |-> "ok", val |-> None]
              /\ UNCHANGED <<schema, chats, messages, steps>>
      ]_vars

\* a purge has returned ids and kept a file of createdAt = T
C5_Witness ==
    /\ ret.op = "deleteOldFiles"
    /\ ret.err = "ok"
    /\ ret.val # {}
    /\ \E f \in files : f.createdAt = getTime(ret.arg)

\* C6: addChat of a stored id is refused with a constraint error and changes
\* nothing; at most one chat is stored per id.
C6_UniqueChatID ==
    [][ /\ (Live("addChat") /\ Settles({"addChat"})
              /\ \E r \in chats : r.id = ret'.arg.id)
            => (ret'.err = "ConstraintError" /\ UNCHANGED <<adapterVars, dataVars>>)
        /\ \A r1, r2 \in chats' : r1.id = r2.id => r1 = r2
      ]_vars

\* an addChat of a stored id, with other fields, has been refused
C6_Witness ==
    /\ ret.op = "addChat"
    /\ ret.err = "ConstraintError"
    /\ chatToRow(ret.arg) \notin chats

\* C7: after addChat(c) returns, getChatByID(c.id) returns a record equal to
\* c; and the stored chat of an id is changed by no step other than an edit or
\* a delete of that id: not by calls on other chats, on messages, confirmed
\* steps or files, nor by close() and open().
C7_ChatRoundTrip ==
    [][ /\ \A c \in FewChats :
              (Settles({"addChat"}) /\ ret'.err = "ok" /\ ret'.arg = c)
              => getChatByID(chats, c.id)' = [err |-> "ok", val |-> Some(c)]
        /\ \A id \in ChatIDs :
              ( /\ \E r \in chats : r.id = id
                /\ ~ ( /\ ret' # NoRet
                       /\ \/ ret'.op = "editChatByID" /\ ret'.arg.id = id
                          \/ ret'.op = "deleteChatByID" /\ ret'.arg = id ) )
              => /\ {r \in chats' : r.id = id} = {r \in chats : r.id = id}
                 /\ Live("getChatByID")' =>
                      getChatByID(chats, id)' =
                          [err |-> "ok", val |-> {rowToChat(r) : r \in {x \in chats : x.id = id}}]
      ]_vars

\* a chat is read back on the second connection, with a message, a step and
\* a file stored and the other chat edited
C7_Witness ==
    /\ ret.op = "getChatByID"
    /\ ret.err = "ok"
    /\ ret.val # None
    /\ nconn = 2
    /\ messages # {} /\ steps # {} /\ files # {}
    /\ \E r \in chats : r.id # ret.arg /\ r.name = "b"

\* C8: open() on an open adapter returns at once and leaves the connection,
\* the statements and the data as they are; close() on an adapter that is not
\* open does nothing.
C8_Idempotent ==
    [][ /\ (isOpen /\ Settles({"open"}))
            => (ret'.err = "ok" /\ UNCHANGED <<adapterVars, dataVars, pending>>)
        /\ (~isOpen /\ Settles({"close"}))
            => (ret'.err = "ok" /\ UNCHANGED <<adapterVars, dataVars, pending>>)
      ]_vars

\* open() has returned on the first connection, which already stored a chat
C8_Witness ==
    /\ ret.op = "open"
    /\ ret.err = "ok"
    /\ nconn = 1
    /\ FullyOpen
    /\ chats # {}

\* C9: no call yields between its storage steps: when a delete that has read
\* a record goes on to remove it, no other call has run in between, so the
\* adapter is still open (no close() came between the read and the delete) and
\* the record is still stored (no other delete of the id has returned it).
C9_NoYield ==
    [][ ( /\ pending # <<>>
          /\ pending' = Tail(pending)
          /\ Head(pending).got.err = "ok"
          /\ Head(pending).got.val # None )
        => /\ db # NoDb
           /\ IF Head(pending).op = "deleteChatByID"
              THEN \E r \in chats : r.id = Head(pending).id
              ELSE \E r \in files : r.id = Head(pending).id
      ]_vars

\* C10: the adapter is marked open only if the schema is applied and every
\* statement is prepared; an open() that threw leaves it not open.
C10_OpenIsComplete ==
    /\ (isOpen \/ db # NoDb) => FullyOpen
    /\ (ret.op = "open" /\ ret.err # "ok") => ~isOpen

====
